---------------------------- MODULE Spec2Model ----------------------------
(***************************************************************************)
(* The abstract-to-title summarizer notebook                                *)
(* (abstract-summarizer/abstract-to-title-summarizer.ipynb) as a state      *)
(* machine.  The notebook is run top to bottom; every code cell that the    *)
(* properties depend on is one action, and model.fit, whose callbacks run   *)
(* between its epochs, is split at the points where Keras hands control to  *)
(* the validation pass and to the KerasMetricCallback.                      *)
(*                                                                         *)
(* Representation.                                                         *)
(*  - A text is kept as a descriptor [len, seed]; Chars expands it to the   *)
(*    sequence of its characters.  The tokenizer produces one piece per     *)
(*    character (an abstraction of SentencePiece); input_ids hold the piece *)
(*    itself, which stands for its vocabulary index.                        *)
(*  - A line of the input file is blank, malformed, or a JSON object with   *)
(*    each of id/title/abstract a value, null or absent.                    *)
(*  - A row keeps the number of the file line it was parsed from in "id"    *)
(*    (arXiv ids are unique per record).                                    *)
(*  - The order of rows inside a split is not modelled (rows are listed in  *)
(*    dataframe order); which rows go to which split is any outcome the     *)
(*    seeded shuffle could produce.                                         *)
(***************************************************************************)
EXTENDS Integers, Sequences, FiniteSets, TLC

(***************************************************************************)
(* Program constants (cell f861fabf and literals of later cells).           *)
(***************************************************************************)
\* TRAIN_TEST_SPLIT = 0.1, kept as the fraction 1/10
TRAIN_TEST_SPLIT_NUM == 1
TRAIN_TEST_SPLIT_DEN == 10
MAX_INPUT_LENGTH == 384
MAX_TARGET_LENGTH == 48
MAX_EPOCHS == 1
\* model.fit(..., epochs=3, ...)
FIT_EPOCHS == 3

(***************************************************************************)
(* Bounds of the model.  N and GEN_SAMPLE stand for the notebook's          *)
(* N = 200_000 and select(range(200)); they are run at sizes at which files *)
(* longer than N and test splits larger than the sample can be enumerated.  *)
(***************************************************************************)
N == 12
GEN_SAMPLE == 2
MaxLines == 3
ShortLen == 3
MaxExamples == 2

VARIABLES
    file,              \* the lines of arxiv-metadata-oai-snapshot.json
    MODEL_CHECKPOINT,  \* the checkpoint name, a sequence of characters
    pc,                \* the cell the run is at, "done" or "error"
    error,             \* the exception that stopped the run, or "none"
    records,           \* the list the load loop appends to
    df,                \* the cleaned dataframe
    train_ds, test_ds, \* splits["train"], splits["test"]
    prefix,            \* the task prefix
    inputs,            \* the texts handed to the tokenizer, per split
    tokenized_splits,  \* [train, test] of rows [input_ids, attention_mask, labels]
    generation_dataset,\* positions of the test split that the callback scores
    epoch,             \* epochs whose training pass has run
    phase,             \* position inside model.fit
    trained,           \* ids of the rows model.fit has trained on
    scored,            \* ids of the rows the RougeL callback has scored
    trace              \* the steps started so far, in order

vars == <<file, MODEL_CHECKPOINT, pc, error, records, df, train_ds, test_ds,
          prefix, inputs, tokenized_splits, generation_dataset, epoch, phase,
          trained, scored, trace>>

(***************************************************************************)
(* Texts and strings.                                                      *)
(***************************************************************************)
Alphabet == <<"a", "b", "c", "d", "e">>

Chars(t) == [j \in 1..t.len |-> Alphabet[((j + t.seed) % Len(Alphabet)) + 1]]

\* str.startswith
StartsWith(s, p) == Len(s) >= Len(p) /\ SubSeq(s, 1, Len(p)) = p

T5_PREFIX == <<"t", "5", "-">>
SUMMARIZE == <<"s", "u", "m", "m", "a", "r", "i", "z", "e", ":", " ">>
T5_SMALL == <<"t", "5", "-", "s", "m", "a", "l", "l">>

Fields == {"id", "title", "abstract"}


(***************************************************************************)
(* The input file.                                                         *)
(***************************************************************************)
Blank == [kind |-> "blank"]
Bad == [kind |-> "bad"]
Obj(i, t, a, long) == [kind |-> "obj", id |-> i, title |-> t, abstract |-> a, long |-> long]

Full == Obj("val", "val", "val", FALSE)
FullLong == Obj("val", "val", "val", TRUE)
NoAbstract == Obj("val", "val", "absent", FALSE)
NullTitle == Obj("val", "null", "val", FALSE)
NoId == Obj("absent", "val", "val", FALSE)

LineKinds == {Blank, Bad, Full, FullLong, NoAbstract, NullTitle, NoId}

\* the abstract and the title written on a line: short ones fit the model's
\* maximum lengths, long ones exceed them
AbstractOf(line, i) ==
    [len |-> IF line.long THEN MAX_INPUT_LENGTH + ShortLen ELSE ShortLen + (i % 2), seed |-> i]

TitleOf(line, i) ==
    [len |-> IF line.long THEN MAX_TARGET_LENGTH + ShortLen ELSE ShortLen - 1, seed |-> i + 2]

\* line.strip(): "" for a line of white space only
Strip(line) == IF line.kind = "blank" THEN "" ELSE "text"

\* whether json.loads(line) raises json.JSONDecodeError
JsonInvalid(line) == line.kind = "bad"

\* json.loads(line) of a well-formed line number i (1-based): the keys the
\* object has, those whose value is a JSON null (None), and the values
NoText == [len |-> 0, seed |-> 0]

JsonLoads(line, i) ==
    [keys |-> {f \in Fields : line[f] # "absent"},
     nulls |-> {f \in Fields : line[f] = "null"},
     id |-> IF line.id = "val" THEN i ELSE 0,
     title |-> IF line.title = "val" THEN TitleOf(line, i) ELSE NoText,
     abstract |-> IF line.abstract = "val" THEN AbstractOf(line, i) ELSE NoText]

(***************************************************************************)
(* Cell f8a3484e: the load loop.  i is enumerate's 0-based index of the     *)
(* line about to be read; the result is the list built and whether the loop *)
(* ended by an exception.                                                  *)
(***************************************************************************)
LoopBreak(i) == i >= N

\* the loop with a malformed line skipped instead of raising
RECURSIVE LoadLoop_SkipInvalid(_, _, _)
LoadLoop_SkipInvalid(f, i, recs) ==
    IF i >= Len(f) THEN [records |-> recs, raised |-> FALSE]
    ELSE IF LoopBreak(i) THEN [records |-> recs, raised |-> FALSE]
    ELSE IF Strip(f[i + 1]) = "" THEN LoadLoop_SkipInvalid(f, i + 1, recs)
    ELSE IF JsonInvalid(f[i + 1]) THEN LoadLoop_SkipInvalid(f, i + 1, recs)
    ELSE LoadLoop_SkipInvalid(f, i + 1, Append(recs, JsonLoads(f[i + 1], i + 1)))

RECURSIVE LoadLoop(_, _, _)
LoadLoop(f, i, recs) ==
    IF i >= Len(f) THEN [records |-> recs, raised |-> FALSE]
    ELSE IF LoopBreak(i) THEN [records |-> recs, raised |-> FALSE]
    ELSE IF Strip(f[i + 1]) = "" THEN LoadLoop(f, i + 1, recs)
    ELSE IF JsonInvalid(f[i + 1]) THEN [records |-> recs, raised |-> TRUE]
    ELSE LoadLoop(f, i + 1, Append(recs, JsonLoads(f[i + 1], i + 1)))

\* pd.DataFrame(records): the columns are the keys that occur in any record
Columns(recs) == UNION {recs[k].keys : k \in 1..Len(recs)}

\* .loc[:, ["id", "title", "abstract"]] raises KeyError when a column is missing
LocRaises(recs) == ~(Fields \subseteq Columns(recs))

\* a cell of the frame is null when the record has no such key or holds None
IsNull(r, f) == f \notin r.keys \/ f \in r.nulls

\* .dropna(): keep the rows without a null
NotNullRow(r) == \A f \in Fields : ~IsNull(r, f)

Row(r) == [id |-> r.id, title |-> r.title, abstract |-> r.abstract]

RECURSIVE DropNa(_)
DropNa(recs) ==
    IF recs = <<>> THEN <<>>
    ELSE IF NotNullRow(Head(recs)) THEN <<Row(Head(recs))>> \o DropNa(Tail(recs))
    ELSE DropNa(Tail(recs))

Stop(exc) == pc' = "error" /\ error' = exc

LoadData ==
    /\ pc = "load"
    /\ trace' = Append(trace, "load")
    /\ LET r == LoadLoop(file, 0, <<>>) IN
        /\ records' = r.records
        /\ IF r.raised THEN Stop("JSONDecodeError") /\ df' = df
           ELSE IF LocRaises(r.records) THEN Stop("KeyError") /\ df' = df
           ELSE df' = DropNa(r.records) /\ pc' = "build" /\ error' = error
    /\ UNCHANGED <<file, MODEL_CHECKPOINT, train_ds, test_ds, prefix, inputs,
                   tokenized_splits, generation_dataset, epoch, phase, trained, scored>>


(***************************************************************************)
(* Cell 18ad6853: Dataset.from_pandas, the renames and train_test_split.    *)
(***************************************************************************)
Rename(r) == [id |-> r.id, input_text |-> r.abstract, target_text |-> r.title]

DsOf(frame) == [k \in 1..Len(frame) |-> Rename(frame[k])]

\* the test size rounded down instead of up
NTest_Floor(n) == (n * TRAIN_TEST_SPLIT_NUM) \div TRAIN_TEST_SPLIT_DEN

\* math.ceil(n * test_size) for test_size = TRAIN_TEST_SPLIT
NTest(n) ==
    (n * TRAIN_TEST_SPLIT_NUM + TRAIN_TEST_SPLIT_DEN - 1) \div TRAIN_TEST_SPLIT_DEN

\* train_size is None: the training split is the complement of the test split
NTrain(n) == n - NTest(n)

\* train_test_split raises ValueError when the training split would be empty
SplitRaises(n) == NTrain(n) = 0

RECURSIVE Pick(_, _, _)
\* the rows of ds at the positions >= k that are in (or are not in) the set T
Pick(ds, k, keep) ==
    IF k > Len(ds) THEN <<>>
    ELSE IF k \in keep THEN <<ds[k]>> \o Pick(ds, k + 1, keep)
    ELSE Pick(ds, k + 1, keep)

TrainRows(ds, T) == Pick(ds, 1, (1..Len(ds)) \ T)

TestRows(ds, T) == Pick(ds, 1, T)

BuildDataset ==
    /\ pc = "build"
    /\ trace' = Append(trace, "build")
    /\ LET ds == DsOf(df)
           n == Len(ds)
       IN IF SplitRaises(n)
          THEN Stop("ValueError") /\ UNCHANGED <<train_ds, test_ds>>
          ELSE /\ \E T \in SUBSET (1..n) :
                    /\ Cardinality(T) = NTest(n)
                    /\ train_ds' = TrainRows(ds, T)
                    /\ test_ds' = TestRows(ds, T)
               /\ pc' = "prefix"
               /\ error' = error
    /\ UNCHANGED <<file, MODEL_CHECKPOINT, records, df, prefix, inputs,
                   tokenized_splits, generation_dataset, epoch, phase, trained, scored>>

(***************************************************************************)
(* Cell ca1c60d8: the task prefix.                                          *)
(***************************************************************************)
\* the prefix left out whatever the checkpoint
PrefixFor_None(checkpoint) == <<>>

PrefixFor(checkpoint) == IF StartsWith(checkpoint, T5_PREFIX) THEN SUMMARIZE ELSE <<>>

SetPrefix ==
    /\ pc = "prefix"
    /\ prefix' = PrefixFor(MODEL_CHECKPOINT)
    /\ pc' = "tokenize"
    /\ trace' = Append(trace, "prefix")
    /\ UNCHANGED <<file, MODEL_CHECKPOINT, error, records, df, train_ds, test_ds, inputs,
                   tokenized_splits, generation_dataset, epoch, phase, trained, scored>>

(***************************************************************************)
(* Cells 0a20ef81 and 00e60b01: preprocess_function mapped over the splits. *)
(***************************************************************************)
\* tokenizer(text, max_length=m, truncation=True, padding="max_length"):
\* one piece per character and the end-of-sequence piece, cut to m pieces
\* with the end-of-sequence piece kept, then padded to m
\* truncation=True left out
Truncate_None(text, m) == text \o <<"</s>">>

Truncate(text, m) ==
    IF Len(text) + 1 > m THEN SubSeq(text, 1, m - 1) \o <<"</s>">> ELSE text \o <<"</s>">>

Pad(ids, m, p) == ids \o [j \in 1..(m - Len(ids)) |-> p]

Tokenizer(text, m) ==
    LET ids == Truncate(text, m)
    IN [input_ids |-> Pad(ids, m, "<pad>"),
        attention_mask |-> Pad([j \in 1..Len(ids) |-> 1], m, 0)]

\* inputs = [prefix + txt for txt in examples["input_text"]]
InputText(pre, ex) == pre \o Chars(ex.input_text)

TargetText(pre, ex) == Chars(ex.target_text)

Inputs(pre, examples) == [k \in 1..Len(examples) |-> InputText(pre, examples[k])]

preprocess_function(pre, ex) ==
    LET model_inputs == Tokenizer(InputText(pre, ex), MAX_INPUT_LENGTH)
        labels == Tokenizer(TargetText(pre, ex), MAX_TARGET_LENGTH)
    IN [input_ids |-> model_inputs.input_ids,
        attention_mask |-> model_inputs.attention_mask,
        labels |-> labels.input_ids]

REMOVE_COLUMNS == {"id", "input_text", "target_text"}

\* Dataset.map: the function's columns are added to the example's (replacing
\* those of the same name) and remove_columns are taken out of the example's
MapRow(ex, out) ==
    [c \in ((DOMAIN ex) \ REMOVE_COLUMNS) \cup (DOMAIN out) |->
        IF c \in DOMAIN out THEN out[c] ELSE ex[c]]

MapSplit(pre, examples) ==
    [k \in 1..Len(examples) |-> MapRow(examples[k], preprocess_function(pre, examples[k]))]

Tokenize ==
    /\ pc = "tokenize"
    /\ inputs' = [train |-> Inputs(prefix, train_ds), test |-> Inputs(prefix, test_ds)]
    /\ tokenized_splits' = [train |-> MapSplit(prefix, train_ds),
                            test |-> MapSplit(prefix, test_ds)]
    /\ pc' = "tfdata"
    /\ trace' = Append(trace, "tokenize")
    /\ UNCHANGED <<file, MODEL_CHECKPOINT, error, records, df, train_ds, test_ds, prefix,
                   generation_dataset, epoch, phase, trained, scored>>


(***************************************************************************)
(* Cell b6510686: the tf datasets.  train_dataset and test_dataset are      *)
(* views of the tokenized splits; generation_dataset is the test split      *)
(* shuffled, cut to its first GEN_SAMPLE rows: a list of distinct positions *)
(* of the test split (the indices mapping of the selected Dataset).         *)
(***************************************************************************)
\* .select(range(k)) raises IndexError on a dataset of fewer than k rows
SelectRaises(size, k) == k > size

\* the outcomes of .shuffle(seed=42).select(range(k)) on a dataset of `size` rows
ShuffleSelect(size, k) ==
    {g \in [1..k -> 1..size] : \A a, b \in 1..k : a # b => g[a] # g[b]}

BuildTfDatasets ==
    /\ pc = "tfdata"
    /\ trace' = Append(trace, "tfdata")
    /\ IF SelectRaises(Len(tokenized_splits.test), GEN_SAMPLE)
       THEN Stop("IndexError") /\ UNCHANGED <<generation_dataset, phase>>
       ELSE /\ generation_dataset' \in ShuffleSelect(Len(tokenized_splits.test), GEN_SAMPLE)
            /\ pc' = "fit"
            /\ phase' = "train"
            /\ error' = error
    /\ UNCHANGED <<file, MODEL_CHECKPOINT, records, df, train_ds, test_ds, prefix, inputs,
                   tokenized_splits, epoch, trained, scored>>

(***************************************************************************)
(* Cell af828bf3: model.fit(train_dataset, validation_data=test_dataset,    *)
(* epochs=3, callbacks=[metric_callback]).  Each epoch is a training pass,  *)
(* a validation pass and the callbacks' on_epoch_end, in which the          *)
(* KerasMetricCallback generates on generation_dataset and computes RougeL  *)
(* (the recorded output: "Epoch 1/3 ... val_loss ... RougeL", "Epoch 2/3"). *)
(* The training split is taken to hold enough batches for every epoch, as   *)
(* in the recorded run.                                                    *)
(***************************************************************************)
\* model.fit called with epochs=MAX_EPOCHS
FitEpochs_MaxEpochs == MAX_EPOCHS

\* the epochs= argument of model.fit
FitEpochs == FIT_EPOCHS

\* the rows of a split by id
Ids(ds) == {ds[k].id : k \in 1..Len(ds)}

\* the sample drawn from the training split
EvalIds_FromTrain == {train_ds[generation_dataset[k]].id : k \in 1..Len(generation_dataset)}

\* the rows of the test split that eval_dataset=generation_dataset holds
EvalIds == {test_ds[generation_dataset[k]].id : k \in 1..Len(generation_dataset)}

\* what follows the training pass of an epoch
AfterTrain == "validate"

FitTrainEpoch ==
    /\ pc = "fit"
    /\ phase = "train"
    /\ epoch < FitEpochs
    /\ epoch' = epoch + 1
    /\ trained' = trained \cup Ids(train_ds)
    /\ phase' = AfterTrain
    /\ trace' = Append(trace, "train")
    /\ UNCHANGED <<file, MODEL_CHECKPOINT, pc, error, records, df, train_ds, test_ds, prefix,
                   inputs, tokenized_splits, generation_dataset, scored>>

FitValidate ==
    /\ pc = "fit"
    /\ phase = "validate"
    /\ phase' = "metric"
    /\ UNCHANGED <<file, MODEL_CHECKPOINT, pc, error, records, df, train_ds, test_ds, prefix,
                   inputs, tokenized_splits, generation_dataset, epoch, trained, scored, trace>>

FitMetricCallback ==
    /\ pc = "fit"
    /\ phase = "metric"
    /\ scored' = scored \cup EvalIds
    /\ trace' = Append(trace, "evaluate")
    /\ IF epoch < FitEpochs
       THEN phase' = "train" /\ pc' = pc
       ELSE phase' = "idle" /\ pc' = "infer"
    /\ UNCHANGED <<file, MODEL_CHECKPOINT, error, records, df, train_ds, test_ds, prefix,
                   inputs, tokenized_splits, generation_dataset, epoch, trained>>

(***************************************************************************)
(* Cell 5cc2cfd9: the summarization pipeline used for inference.            *)
(***************************************************************************)
BuildPipeline ==
    /\ pc = "infer"
    /\ pc' = "done"
    /\ trace' = Append(trace, "infer")
    /\ UNCHANGED <<file, MODEL_CHECKPOINT, error, records, df, train_ds, test_ds, prefix,
                   inputs, tokenized_splits, generation_dataset, epoch, phase, trained, scored>>

(***************************************************************************)
(* The runs of the whole notebook.  The input file is any file of at most   *)
(* MaxLines lines, or a file of N - 1 or N complete records with at most    *)
(* one line of any kind before them and at most one more line after them.   *)
(***************************************************************************)
SeqsUpTo(S, n) == UNION {[1..k -> S] : k \in 0..n}

Fill(k) == [j \in 1..k |-> Full]

AtMostOne(S) == {<<>>} \cup {<<l>> : l \in S}

SmallFiles == SeqsUpTo(LineKinds, MaxLines)

LongFiles ==
    {h \o Fill(k) \o t : h \in AtMostOne(LineKinds), k \in {N - 1, N}, t \in AtMostOne({Blank, Full})}

Files == SmallFiles \cup LongFiles

Unset ==
    /\ pc = "load"
    /\ error = "none"
    /\ records = <<>>
    /\ df = <<>>
    /\ train_ds = <<>>
    /\ test_ds = <<>>
    /\ prefix = <<>>
    /\ inputs = [train |-> <<>>, test |-> <<>>]
    /\ tokenized_splits = [train |-> <<>>, test |-> <<>>]
    /\ generation_dataset = <<>>
    /\ epoch = 0
    /\ phase = "idle"
    /\ trained = {}
    /\ scored = {}
    /\ trace = <<>>

Init ==
    /\ file \in Files
    /\ MODEL_CHECKPOINT = T5_SMALL
    /\ Unset

Next ==
    \/ LoadData
    \/ BuildDataset
    \/ SetPrefix
    \/ Tokenize
    \/ BuildTfDatasets
    \/ FitTrainEpoch
    \/ FitValidate
    \/ FitMetricCallback
    \/ BuildPipeline

Spec == Init /\ [][Next]_vars


(***************************************************************************)
(* The tokenization cells on their own: the splits and the checkpoint name  *)
(* are inputs.  The examples' lengths sit on both sides of the two maximum  *)
(* lengths, with and without the prefix.                                   *)
(***************************************************************************)
Checkpoints ==
    {T5_SMALL, <<"t", "5">>, <<"m", "t", "5", "-", "s", "m", "a", "l", "l">>}

ExampleLens ==
    {<<0, 0>>,
     <<ShortLen, ShortLen>>,
     <<MAX_INPUT_LENGTH - Len(SUMMARIZE) - 1, MAX_TARGET_LENGTH - 1>>,
     <<MAX_INPUT_LENGTH - Len(SUMMARIZE), MAX_TARGET_LENGTH>>,
     <<MAX_INPUT_LENGTH - 1, ShortLen>>,
     <<MAX_INPUT_LENGTH, MAX_TARGET_LENGTH + ShortLen>>,
     <<MAX_INPUT_LENGTH + ShortLen, MAX_TARGET_LENGTH - 1>>}

Example(i, lens) ==
    [id |-> i,
     input_text |-> [len |-> lens[1], seed |-> i],
     target_text |-> [len |-> lens[2], seed |-> i + 2]]

\* a split whose rows have the given lengths and the ids from+1, from+2, ...
SplitOf(lenseq, from) == [k \in 1..Len(lenseq) |-> Example(from + k, lenseq[k])]

InitTok ==
    /\ file = <<>>
    /\ MODEL_CHECKPOINT \in Checkpoints
    /\ pc = "prefix"
    /\ error = "none"
    /\ records = <<>>
    /\ df = <<>>
    /\ \E tr \in SeqsUpTo(ExampleLens, MaxExamples) \ {<<>>}, te \in ExampleLens :
          /\ train_ds = SplitOf(tr, 0)
          /\ test_ds = SplitOf(<<te>>, Len(tr))
    /\ prefix = <<>>
    /\ inputs = [train |-> <<>>, test |-> <<>>]
    /\ tokenized_splits = [train |-> <<>>, test |-> <<>>]
    /\ generation_dataset = <<>>
    /\ epoch = 0
    /\ phase = "idle"
    /\ trained = {}
    /\ scored = {}
    /\ trace = <<"load", "build">>

NextTok ==
    \/ SetPrefix
    \/ Tokenize

SpecTok == InitTok /\ [][NextTok]_vars

(***************************************************************************)
(* Properties.                                                             *)
(***************************************************************************)
Started(step) == \E k \in 1..Len(trace) : trace[k] = step

Min(a, b) == IF a < b THEN a ELSE b

\* the parsed content of the non-blank lines among the first m lines of f
RECURSIVE ParsedUpTo(_, _)
ParsedUpTo(f, m) ==
    IF m = 0 THEN <<>>
    ELSE ParsedUpTo(f, m - 1) \o (IF f[m].kind = "blank" THEN <<>> ELSE <<JsonLoads(f[m], m)>>)

\* the number of the m-th non-blank line of f (Len(f) when there are fewer)
RECURSIVE LineOfNonBlank(_, _, _)
LineOfNonBlank(f, m, from) ==
    IF from > Len(f) THEN Len(f)
    ELSE IF f[from].kind = "blank" THEN LineOfNonBlank(f, m, from + 1)
    ELSE IF m = 1 THEN from
    ELSE LineOfNonBlank(f, m - 1, from + 1)

BadLines(f) == {i \in 1..Min(Len(f), N) : f[i].kind = "bad"}

FirstBad(f) == CHOOSE i \in BadLines(f) : \A j \in BadLines(f) : i <= j

Complete(r) == r.keys = Fields /\ r.nulls = {}

\* the rows of the complete records of a list, in order
CompleteRows(recs) ==
    LET sel == SelectSeq(recs, Complete)
    IN [k \in 1..Len(sel) |-> [id |-> sel[k].id, title |-> sel[k].title, abstract |-> sel[k].abstract]]

\* the parsed content of the well-formed lines among the first N lines of f
WellFormedRecords(f) ==
    ParsedUpTo([k \in 1..Len(f) |-> IF f[k].kind = "bad" THEN Blank ELSE f[k]], Min(Len(f), N))

\* C1, as stated: when a non-blank line among the first N lines is not valid
\* JSON, the load step completes, df holds exactly the rows of the well-formed
\* complete records and the run proceeds to the dataset-building step.
C1_MalformedLineExcluded ==
    (Started("load") /\ BadLines(file) # {}) =>
        /\ error # "JSONDecodeError"
        /\ trace = <<"load">> => pc = "build"
        /\ df = CompleteRows(WellFormedRecords(file))

\* C1, amended: a malformed line among the first N lines stops the load step
\* with JSONDecodeError: records keeps what was parsed from the lines before
\* the first malformed one, no dataframe is built and no later step runs.
C1_MalformedLineAborts ==
    (Started("load") /\ BadLines(file) # {}) =>
        /\ pc = "error"
        /\ error = "JSONDecodeError"
        /\ records = ParsedUpTo(file, FirstBad(file) - 1)
        /\ df = <<>>
        /\ trace = <<"load">>

C1_Witness ==
    /\ pc = "error"
    /\ error = "JSONDecodeError"
    /\ Len(records) >= 1
    /\ Len(file) > FirstBad(file)

\* the lines of f are all blank or well-formed
WellFormed(f) == \A i \in 1..Len(f) : f[i].kind # "bad"

NonBlank(f) == {i \in 1..Len(f) : f[i].kind # "blank"}

\* C2: on a file of well-formed lines, when the loop has ended records holds,
\* in file order, the parsed content of the first min(N, number of non-blank
\* lines) non-blank lines.
C2_FirstNRecords ==
    (Started("load") /\ WellFormed(file)) =>
        records =
            IF NonBlank(file) = {} THEN <<>>
            ELSE ParsedUpTo(file,
                            LineOfNonBlank(file, Min(N, Cardinality(NonBlank(file))), 1))

\* C3: whatever records were loaded, those with a missing (or null) field are
\* dropped without stopping the load step, and df holds exactly the records
\* whose id, title and abstract are all present and non-null, once each, in
\* file order.
C3_NullDrop ==
    (Started("load") /\ error # "JSONDecodeError" /\ records # <<>>) =>
        /\ error # "KeyError"
        /\ trace = <<"load">> => pc = "build"
        /\ df = CompleteRows(records)


\* the six steps of the README's workflow, in its order
Rank(step) ==
    CASE step = "load" -> 1
      [] step = "build" -> 2
      [] step \in {"prefix", "tokenize", "tfdata"} -> 3
      [] step = "train" -> 4
      [] step = "evaluate" -> 5
      [] step = "infer" -> 6

ExpectedTrace ==
    <<"load", "build", "prefix", "tokenize", "tfdata">>
        \o [j \in 1..(2 * FIT_EPOCHS) |-> IF j % 2 = 1 THEN "train" ELSE "evaluate"]
        \o <<"infer">>

C5_HeldOutSample ==
    /\ scored \cap trained = {}
    /\ scored \subseteq Ids(test_ds)
    /\ scored \cap Ids(train_ds) = {}
    /\ scored # {} => Cardinality(scored) = GEN_SAMPLE
    /\ (Started("tfdata") /\ Len(test_ds) >= GEN_SAMPLE) =>
          /\ pc # "error"
          /\ Len(generation_dataset) = GEN_SAMPLE
          /\ \A a, b \in 1..GEN_SAMPLE :
                /\ generation_dataset[a] \in 1..Len(test_ds)
                /\ a # b => test_ds[generation_dataset[a]].id # test_ds[generation_dataset[b]].id

C5_Witness ==
    /\ scored # {}
    /\ trained # {}
    /\ Len(test_ds) >= GEN_SAMPLE

ColumnsOut == {"input_ids", "attention_mask", "labels"}

\* C7: after the map, each tokenized split has one row per row of the split,
\* every row has exactly the columns input_ids, attention_mask and labels,
\* input_ids and attention_mask have MAX_INPUT_LENGTH entries and labels has
\* MAX_TARGET_LENGTH entries, whatever the lengths of the abstract and title.
C7_FixedLength ==
    Started("tokenize") =>
        /\ Len(tokenized_splits.train) = Len(train_ds)
        /\ Len(tokenized_splits.test) = Len(test_ds)
        /\ \A s \in {"train", "test"} : \A k \in 1..Len(tokenized_splits[s]) :
              LET row == tokenized_splits[s][k]
              IN /\ DOMAIN row = ColumnsOut
                 /\ Len(row.input_ids) = MAX_INPUT_LENGTH
                 /\ Len(row.attention_mask) = MAX_INPUT_LENGTH
                 /\ Len(row.labels) = MAX_TARGET_LENGTH

C7_Witness ==
    /\ Started("tokenize")
    /\ \E k \in 1..Len(train_ds) :
          /\ train_ds[k].input_text.len > MAX_INPUT_LENGTH
          /\ tokenized_splits.train[k].input_ids[MAX_INPUT_LENGTH] = "</s>"
    /\ \E k \in 1..Len(train_ds) :
          /\ train_ds[k].target_text.len < MAX_TARGET_LENGTH - 1
          /\ tokenized_splits.train[k].labels[MAX_TARGET_LENGTH] = "<pad>"

IsT5 ==
    /\ Len(MODEL_CHECKPOINT) >= 3
    /\ MODEL_CHECKPOINT[1] = "t"
    /\ MODEL_CHECKPOINT[2] = "5"
    /\ MODEL_CHECKPOINT[3] = "-"

\* C8: the text handed to the tokenizer for an example is "summarize: "
\* followed by its abstract when the checkpoint name starts with "t5-" and the
\* abstract unchanged otherwise, and the labels are the tokens of the title
\* without any prefix.
C8_TaskPrefix ==
    Started("tokenize") =>
        \A s \in {"train", "test"} :
            LET ds == IF s = "train" THEN train_ds ELSE test_ds
            IN /\ Len(inputs[s]) = Len(ds)
               /\ \A k \in 1..Len(ds) :
                     /\ inputs[s][k] =
                            (IF IsT5 THEN SUMMARIZE ELSE <<>>) \o Chars(ds[k].input_text)
                     /\ tokenized_splits[s][k].input_ids =
                            Tokenizer(inputs[s][k], MAX_INPUT_LENGTH).input_ids
                     /\ tokenized_splits[s][k].labels =
                            Tokenizer(Chars(ds[k].target_text), MAX_TARGET_LENGTH).input_ids

C8_Witness ==
    /\ Started("tokenize")
    /\ IsT5
    /\ \E k \in 1..Len(train_ds) :
          /\ train_ds[k].input_text.len > 0
          /\ SubSeq(inputs.train[k], 1, Len(SUMMARIZE)) = SUMMARIZE
          /\ Len(inputs.train[k]) = Len(SUMMARIZE) + train_ds[k].input_text.len

\* C9: the training step never performs more epochs than MAX_EPOCHS.
C9_EpochsAtMostMax == epoch <= MAX_EPOCHS

=============================================================================
